---- MODULE Spec2Model ----
(***************************************************************************)
(* XYZ Tile Forge: the driver main() and the directory passes it composes  *)
(* (xyz_tile_cleaner, xyz_tile_watermarker, xyz_tile_pathsaver,            *)
(* xyz_tile_archiver), over a model of the output tree.                    *)
(*                                                                         *)
(* A file name is a pair <<base, ext>>: ext is the text after the last     *)
(* dot ("" when there is none).  A path is a sequence of names.  The       *)
(* output root is the empty path.                                          *)
(***************************************************************************)
EXTENDS Integers, Sequences, FiniteSets, TLC

VARIABLES
    tree,      \* the output tree: directory path -> [exists, files (listing order)]
    manifest,  \* the lines of <root>/tile_paths.txt
    archive,   \* the members of the archive xyz_tile_archiver last wrote
    hist,      \* the stage functions called so far: [op, config, pre, post]
    args,      \* the parsed command line of main()
    pc,        \* the position of main(): the stage it is about to reach
    status,    \* "" while running, then "completed" (the completion message was
               \* printed), "exit" (exit() in xyz_tiler) or the uncaught exception
    draws      \* the drawable.text calls made so far, with their arguments

vars == <<tree, manifest, archive, hist, args, pc, status, draws>>

----------------------------------------------------------------------------
(* Bounds *)

MaxLen == 2     \* longest varied directory listing drawn at Init
MaxRuns == 2    \* stage functions called in a row when called directly

----------------------------------------------------------------------------
(* Python values that reach a comparison *)

PyInt(n) == [t |-> "int", v |-> n]
PyStr(n) == [t |-> "str", v |-> n]     \* the decimal text of n, as argparse returns it
PyNone == [t |-> "none", v |-> 0]

\* bool(x) as "if x:" evaluates it (a non-empty string is true, "0" included)
Truthy(x) == x.t = "str" \/ (x.t = "int" /\ x.v # 0)

\* a < b raises TypeError unless both are numbers
LtRaises(a, b) == a.t # "int" \/ b.t # "int"
PyLt(a, b) == a.v < b.v

----------------------------------------------------------------------------
(* Names and paths *)

Root == << >>
DirName(z) == <<ToString(z), "">>               \* str(zoom_level)
ZoomDir(z) == <<DirName(z)>>                    \* os.path.join(path, str(zoom))
XDir(z) == <<DirName(z), <<"0", "">>>>          \* <zoom>/<x>

Zooms == {0, 14, 16}                            \* zoom directories a tree may hold
DirOrder == <<Root, ZoomDir(0), XDir(0), ZoomDir(14), XDir(14), ZoomDir(16), XDir(16)>>
DirUniverse == {DirOrder[i] : i \in 1..Len(DirOrder)}

\* str.lower() on an extension
Lower(ext) ==
    CASE ext = "PNG" -> "png"
      [] ext = "JPG" -> "jpg"
      [] ext = "JPEG" -> "jpeg"
      [] ext = "ZIP" -> "zip"
      [] ext = "TXT" -> "txt"
      [] OTHER -> ext

\* name.lower().endswith(tuple of ".<e>" for e in exts)
LowerEndsWith(name, exts) == Lower(name[2]) \in exts
\* name.endswith(".<e>"), case-sensitive
EndsWith(name, e) == name[2] = e

\* os.path.relpath(d, base) for d at or under base: "." when they are the same
RelPath(d, base) ==
    IF d = base THEN << <<".", "">> >> ELSE SubSeq(d, Len(base) + 1, Len(d))

----------------------------------------------------------------------------
(* The tree *)

Absent == [exists |-> FALSE, files |-> << >>]
Dir(files) == [exists |-> TRUE, files |-> files]
File(base, ext, size) == [name |-> <<base, ext>>, size |-> size, marks |-> 0]

\* os.path.exists(d)
Exists(t, d) == d \in DOMAIN t /\ t[d].exists

Range(s) == {s[i] : i \in 1..Len(s)}

RECURSIVE Concat(_)
Concat(ss) == IF ss = << >> THEN << >> ELSE Head(ss) \o Concat(Tail(ss))

\* the subdirectories of d, in listing order
SubDirs(t, d) ==
    SelectSeq(DirOrder, LAMBDA c : Len(c) = Len(d) + 1 /\ SubSeq(c, 1, Len(d)) = d /\ Exists(t, c))

\* os.walk(top), top-down: the directories visited, in order
RECURSIVE os_walk(_, _)
os_walk(t, top) ==
    LET subs == SubDirs(t, top)
    IN  <<top>> \o Concat([i \in 1..Len(subs) |-> os_walk(t, subs[i])])

\* every file of the tree, as [dir, f]
AllFiles(t) ==
    UNION {{[dir |-> d, f |-> t[d].files[i]] : i \in 1..Len(t[d].files)} :
           d \in {x \in DOMAIN t : t[x].exists}}

HasFile(t, d, name) == \E i \in 1..Len(t[d].files) : t[d].files[i].name = name

\* os.remove(os.path.join(d, name))
RemoveFile(t, d, name) ==
    [t EXCEPT ![d].files = SelectSeq(@, LAMBDA f : f.name # name)]

InsertAt(s, pos, e) == SubSeq(s, 1, pos) \o <<e>> \o SubSeq(s, pos + 1, Len(s))

\* open(path, 'w') and the close that follows the writes: the file holds `size`
\* bytes afterwards; a new file enters the directory listing at `pos`
WriteFile(t, d, name, size, pos) ==
    LET new == [name |-> name, size |-> size, marks |-> 0]
    IN  IF HasFile(t, d, name)
        THEN [t EXCEPT ![d].files =
                 [i \in 1..Len(@) |-> IF @[i].name = name THEN new ELSE @[i]]]
        ELSE [t EXCEPT ![d].files = InsertAt(@, pos, new)]

----------------------------------------------------------------------------
(* xyz_tile_cleaner.py *)

\* the comparison of line 78
SizeBelowLe(size, size_threshold) == size.v <= size_threshold.v
SizeBelow(size, size_threshold) == PyLt(size, size_threshold)

\* the inner loop run over the directory's live listing instead of the list
\* os.walk handed out: a removal shifts the files behind it under the index
RECURSIVE delete_small_files_live(_, _, _, _, _)
delete_small_files_live(st, d, files, i, size_threshold) ==
    IF i > Len(st.tree[d].files) \/ st.raised THEN st
    ELSE LET f == st.tree[d].files[i]
         IN  IF LtRaises(PyInt(f.size), size_threshold)
             THEN [st EXCEPT !.raised = TRUE]
             ELSE delete_small_files_live(
                      IF SizeBelow(PyInt(f.size), size_threshold)
                      THEN [st EXCEPT !.tree = RemoveFile(@, d, f.name)] ELSE st,
                      d, files, i + 1, size_threshold)

\* the inner loop of delete_small_tiles over one directory's files;
\* st = [tree, raised]
RECURSIVE delete_small_files(_, _, _, _, _)
delete_small_files(st, d, files, i, size_threshold) ==
    IF i > Len(files) \/ st.raised THEN st
    ELSE LET size == PyInt(files[i].size)     \* os.path.getsize(file_path)
         IN  IF LtRaises(size, size_threshold)
             THEN [st EXCEPT !.raised = TRUE]
             ELSE IF SizeBelow(size, size_threshold)
             THEN delete_small_files([st EXCEPT !.tree = RemoveFile(@, d, files[i].name)],
                                     d, files, i + 1, size_threshold)
             ELSE delete_small_files(st, d, files, i + 1, size_threshold)

RECURSIVE delete_small_dirs(_, _, _, _)
delete_small_dirs(st, dirs, k, size_threshold) ==
    IF k > Len(dirs) \/ st.raised THEN st
    ELSE delete_small_dirs(
             delete_small_files(st, dirs[k], st.tree[dirs[k]].files, 1, size_threshold),
             dirs, k + 1, size_threshold)

\* the walk followed by the removal of the leaf directories it emptied
delete_small_tiles_and_empty_dirs(st, directory, size_threshold) ==
    LET r == delete_small_dirs(st, os_walk(st.tree, directory), 1, size_threshold)
    IN  [r EXCEPT !.tree =
            [d \in DirUniverse |->
                IF Len(d) = 2 /\ d[1] = directory[1] /\ r.tree[d].exists /\ r.tree[d].files = << >>
                THEN Absent ELSE r.tree[d]]]
delete_small_tiles(st, directory, size_threshold) ==
    delete_small_dirs(st, os_walk(st.tree, directory), 1, size_threshold)

\* for zoom_level in range(zoom_level, clear_zoom_max + 1)
RECURSIVE clean_zoom_levels(_, _, _)
clean_zoom_levels(st, config, zoom_level) ==
    IF zoom_level > config.clear_zoom_max \/ st.raised THEN st
    ELSE LET zoom_level_path == ZoomDir(zoom_level)
         IN  clean_zoom_levels(
                 IF Exists(st.tree, zoom_level_path)
                 THEN delete_small_tiles(st, zoom_level_path, config.clear_size_min)
                 ELSE st,
                 config, zoom_level + 1)

xyz_tile_cleaner(t, config) ==
    clean_zoom_levels([tree |-> t, raised |-> FALSE], config, config.clear_zoom_min)

----------------------------------------------------------------------------
(* xyz_tile_watermarker.py *)

WatermarkExts == {"png", "jpg", "jpeg"}

\* the condition of line 88; index counts from 0
SelectedAll(filename, index, watermark_frequency) ==
    LowerEndsWith(filename, WatermarkExts)
SelectedOffByOne(filename, index, watermark_frequency) ==
    LowerEndsWith(filename, WatermarkExts) /\ (index + 1) % watermark_frequency = 0
Selected(filename, index, watermark_frequency) ==
    LowerEndsWith(filename, WatermarkExts) /\ index % watermark_frequency = 0

\* ImageFont.truetype(watermark_font_path, ...) raises IOError when the font
\* cannot be loaded; lines 90-94 catch it and take ImageFont.load_default().
\* enc.fonts is the set of font paths that load on this machine
DefaultFont == "load_default"
load_font_no_fallback(config, enc) ==
    [font |-> config.watermark_font_path,
     raised |-> config.watermark_font_path \notin enc.fonts]
load_font(config, enc) ==
    [font |-> IF config.watermark_font_path \in enc.fonts
              THEN config.watermark_font_path ELSE DefaultFont,
     raised |-> FALSE]

\* drawable.text(position, text, fill=color, font=font): no stroke argument is
\* passed, so the call draws with the library's defaults stroke_width=0 and
\* stroke_fill=None (written << >>)
text_call(path, font) ==
    [path |-> path, font |-> font, stroke_width |-> 0, stroke_fill |-> << >>]

\* Image.open, drawable.text, img.save(image_path): the file is re-encoded with
\* one more overlay; enc.size gives the byte size the encoder produces.
\* st = [tree, raised, draws] is the tree, whether an exception is propagating,
\* and the drawable.text calls made so far
add_watermark_once(st, d, i, font, enc) ==
    LET f == st.tree[d].files[i]
    IN  IF f.marks > 0 THEN st
        ELSE [st EXCEPT !.tree[d].files[i] =
                            [name |-> f.name, size |-> enc.size[d \o <<f.name>>], marks |-> 1],
                        !.draws = Append(@, text_call(d \o <<f.name>>, font))]
add_watermark_to_copy(st, d, i, font, enc) ==
    LET f == st.tree[d].files[i]
        copy == <<f.name[1] \o "_wm", f.name[2]>>
    IN  [st EXCEPT !.tree = WriteFile(@, d, copy, f.size, Len(@[d].files)),
                   !.draws = Append(@, text_call(d \o <<copy>>, font))]
add_watermark_to_image(st, d, i, font, enc) ==
    LET f == st.tree[d].files[i]
    IN  [st EXCEPT !.tree[d].files[i] =
                       [name |-> f.name, size |-> enc.size[d \o <<f.name>>],
                        marks |-> f.marks + 1],
                   !.draws = Append(@, text_call(d \o <<f.name>>, font))]

\* for index, filename in enumerate(files), with i = index + 1; files is the
\* listing os.walk returned, so it is read from the tree at the start of the loop
RECURSIVE watermark_files(_, _, _, _, _, _)
watermark_files(st, files, d, i, config, enc) ==
    IF st.raised \/ i > Len(files) THEN st
    ELSE watermark_files(
             IF Selected(files[i].name, i - 1, config.watermark_frequency)
             THEN LET loaded == load_font(config, enc)
                  IN  IF loaded.raised THEN [st EXCEPT !.raised = TRUE]
                      ELSE add_watermark_to_image(st, d, i, loaded.font, enc)
             ELSE st,
             files, d, i + 1, config, enc)

RECURSIVE watermark_dirs(_, _, _, _, _)
watermark_dirs(st, dirs, k, config, enc) ==
    IF st.raised \/ k > Len(dirs) THEN st
    ELSE watermark_dirs(
             watermark_files(st, st.tree[dirs[k]].files, dirs[k], 1, config, enc),
             dirs, k + 1, config, enc)

process_directory(st, directory, config, enc) ==
    watermark_dirs(st, os_walk(st.tree, directory), 1, config, enc)

\* for level in watermark_layer_levels, with k the position in the list
RECURSIVE watermark_levels_until_missing(_, _, _, _)
watermark_levels_until_missing(st, config, k, enc) ==
    IF st.raised \/ k > Len(config.watermark_layer_levels) THEN st
    ELSE LET level_path == ZoomDir(config.watermark_layer_levels[k])
         IN  IF Exists(st.tree, level_path)
             THEN watermark_levels_until_missing(
                      process_directory(st, level_path, config, enc), config, k + 1, enc)
             ELSE st
RECURSIVE watermark_levels(_, _, _, _)
watermark_levels(st, config, k, enc) ==
    IF st.raised \/ k > Len(config.watermark_layer_levels) THEN st
    ELSE LET level_path == ZoomDir(config.watermark_layer_levels[k])
         IN  watermark_levels(
                 IF Exists(st.tree, level_path)
                 THEN process_directory(st, level_path, config, enc) ELSE st,
                 config, k + 1, enc)

xyz_tile_watermarker(t, config, enc) ==
    watermark_levels([tree |-> t, raised |-> FALSE, draws |-> << >>], config, 1, enc)

\* the paths of the files of the tree
PathsOf(t) == {x.dir \o <<x.f.name>> : x \in AllFiles(t)}

\* the paths a run of the watermarker re-encodes
Marked(t, config) ==
    LET probe == xyz_tile_watermarker(t, config,
                     [size |-> [p \in PathsOf(t) |-> 0], fonts |-> {config.watermark_font_path}]).tree
    IN  {x.dir \o <<x.f.name>> : x \in {y \in AllFiles(t) : y.f \notin Range(probe[y.dir].files)}}

----------------------------------------------------------------------------
(* xyz_tile_pathsaver.py *)

ManifestName == <<"tile_paths", "txt">>
PathsaverExts == {"jpg", "png"}

\* open(output_file_path, mode): what the file holds before the first write
OpenedAppend(old) == old
Opened(old) == << >>                 \* mode 'w' truncates

\* line 69: os.path.join(relative_root, file) if relative_root != "." else file
relative_file_path_joined(relative_root, file) == relative_root \o <<file>>
relative_file_path(relative_root, file) ==
    IF relative_root # << <<".", "">> >> THEN relative_root \o <<file>> ELSE <<file>>

\* the lines one directory contributes, in listing order
dir_lines(t, scan_path, d) ==
    LET relative_root == RelPath(d, scan_path)
        hits == SelectSeq(t[d].files, LAMBDA f : LowerEndsWith(f.name, PathsaverExts))
    IN  [i \in 1..Len(hits) |-> relative_file_path(relative_root, hits[i].name)]

all_paths(t, scan_path) ==
    LET dirs == os_walk(t, scan_path)
    IN  Concat([k \in 1..Len(dirs) |-> dir_lines(t, scan_path, dirs[k])])

\* returns [tree, manifest]; pos is where a new tile_paths.txt enters the root listing
xyz_tile_pathsaver(t, old, scan_path, pos) ==
    LET opened == WriteFile(t, scan_path, ManifestName, 0, pos)
        lines == Opened(old) \o all_paths(opened, scan_path)     \* writelines
    IN  [tree |-> WriteFile(opened, scan_path, ManifestName, Len(lines), pos),
         manifest |-> lines]

----------------------------------------------------------------------------
(* xyz_tile_archiver.py *)

\* line 63: at the top level, drop the names ending in '.zip'
top_level_files_unfiltered(files) == files
top_level_files(files) == SelectSeq(files, LAMBDA f : ~EndsWith(f.name, "zip"))

\* the members one directory contributes
dir_members(t, folder_path, archive_path, d) ==
    LET files == IF d = folder_path THEN top_level_files(t[d].files) ELSE t[d].files
    IN  [i \in 1..Len(files) |->
            [path |-> RelPath(d \o <<files[i].name>>, archive_path),
             size |-> files[i].size, marks |-> files[i].marks]]

\* config.zip_name: the archive's name; config.zip_inside: whether zip_file_path
\* lies directly in archive_path.  Returns [tree, archive]
zip_directory(t, config, pos) ==
    LET folder_path == config.archive_path
        opened == IF config.zip_inside
                  THEN WriteFile(t, folder_path, config.zip_name, 0, pos) ELSE t
        dirs == os_walk(opened, folder_path)
        members == Concat([k \in 1..Len(dirs) |->
                               dir_members(opened, folder_path, config.archive_path, dirs[k])])
    IN  [tree |-> IF config.zip_inside
                  THEN WriteFile(opened, folder_path, config.zip_name, Len(members) + 1, pos)
                  ELSE t,
         archive |-> members]

xyz_tile_archiver(t, config, pos) == zip_directory(t, config, pos)

\* unzip into an empty location: the files, and the directories their paths imply
ExtractedFiles(members) == Range(members)
ExtractedDirs(members) ==
    UNION {{SubSeq(m.path, 1, n) : n \in 1..(Len(m.path) - 1)} : m \in Range(members)}

----------------------------------------------------------------------------
(* Output trees a run can start from *)

FocusFiles ==
    {File("a", "png", 1), File("B", "JPG", 5), File("c", "jpeg", 5), File("d", "txt", 3)}

\* the listings of at most MaxLen of the FocusFiles, in every order
Listings ==
    UNION {{s \in [1..k -> FocusFiles] : \A i, j \in 1..k : i # j => s[i] # s[j]} :
           k \in 0..MaxLen}

NoTree == [d \in DirUniverse |-> IF d = Root THEN Dir(<< >>) ELSE Absent]

\* a freshly generated pyramid: zoom 14 only
TreeA(l) ==
    [NoTree EXCEPT ![Root] = Dir(<<File("preview", "html", 4)>>),
                   ![ZoomDir(14)] = Dir(<< >>),
                   ![XDir(14)] = Dir(l)]

\* an output directory used before: a stale archive and manifest, a stray image
\* in the root and in a zoom directory, zoom levels 0, 14 and 16
TreeB(l) ==
    [NoTree EXCEPT ![Root] = Dir(<<File("old", "zip", 9), File("r", "png", 1),
                                   File("tile_paths", "txt", 1),
                                   File("Forge_Log", "txt", 5)>>),
                   ![ZoomDir(0)] = Dir(<< >>),
                   ![XDir(0)] = Dir(<<File("z", "jpg", 1)>>),
                   ![ZoomDir(14)] = Dir(<<File("t", "PNG", 1)>>),
                   ![XDir(14)] = Dir(l),
                   ![ZoomDir(16)] = Dir(<< >>),
                   ![XDir(16)] = Dir(<<File("s", "jpg", 1), File("u", "png", 3),
                                       File("e", "zip", 2), File("v", "jpg", 1)>>)]

\* zoom 14 missing, zoom 16 present, zoom 0 an empty directory
TreeC(l) ==
    [NoTree EXCEPT ![ZoomDir(0)] = Dir(<< >>),
                   ![ZoomDir(16)] = Dir(<< >>),
                   ![XDir(16)] = Dir(l)]

Trees == UNION {{TreeA(l), TreeB(l), TreeC(l)} : l \in Listings}

\* what a tile_paths.txt found at the start holds: a line of an earlier run
StaleManifest == << <<DirName(14), <<"0", "">>, <<"gone", "jpg">>>> >>
ManifestOf(t) == IF HasFile(t, Root, ManifestName) THEN StaleManifest ELSE << >>

\* the byte sizes the image encoder may produce
EncodedSizes == {2, 7}

\* where a new entry may show up in the root's listing: first or last
RootPositions(t, name) ==
    IF HasFile(t, Root, name) THEN {0} ELSE {0, Len(t[Root].files)}

\* the encoder's output sizes for the files of one run
\* and the fonts that load: arial.ttf is found on some machines and not on others
FontSets == {{}, {"arial.ttf"}}
Encoders(paths) == {[size |-> s, fonts |-> f] : s \in [paths -> EncodedSizes], f \in FontSets}
UniformEncoders(paths) ==
    {[size |-> [p \in paths |-> sz], fonts |-> {"arial.ttf"}] : sz \in EncodedSizes}

----------------------------------------------------------------------------
(* The stage functions called directly, with configurations of the caller's choice *)

CleanerConfigs ==
    {[clear_size_min |-> PyInt(5), clear_zoom_min |-> 1, clear_zoom_max |-> 25],
     [clear_size_min |-> PyInt(0), clear_zoom_min |-> 1, clear_zoom_max |-> 25],
     [clear_size_min |-> PyInt(10), clear_zoom_min |-> 14, clear_zoom_max |-> 14]}

WatermarkerConfigs ==
    {[watermark_layer_levels |-> <<14, 15, 18, 19>>, watermark_frequency |-> 2,
      watermark_font_path |-> "arial.ttf"],
     [watermark_layer_levels |-> <<15, 16, 14>>, watermark_frequency |-> 1,
      watermark_font_path |-> "arial.ttf"],
     [watermark_layer_levels |-> <<16>>, watermark_frequency |-> 3,
      watermark_font_path |-> "missing.ttf"]}

ArchiverConfigs ==
    {[archive_path |-> Root, zip_inside |-> TRUE, zip_name |-> <<"out", "zip">>],
     [archive_path |-> Root, zip_inside |-> FALSE, zip_name |-> <<"out", "zip">>]}

Snapshot == [tree |-> tree, manifest |-> manifest, archive |-> archive]
Call(op, config, t, m, a) ==
    [op |-> op, config |-> config, pre |-> Snapshot,
     post |-> [tree |-> t, manifest |-> m, archive |-> a]]

NoArgs ==
    [input |-> PyNone, minlayer |-> PyNone, maxlayer |-> PyNone, clear |-> PyNone,
     watermark |-> PyNone, pathlog |-> FALSE, zip |-> FALSE]

InitStages ==
    /\ tree \in Trees
    /\ manifest = ManifestOf(tree)
    /\ archive = << >>
    /\ hist = << >>
    /\ args = NoArgs
    /\ pc = "stages"
    /\ status = ""
    /\ draws = << >>

CallCleaner ==
    /\ pc = "stages" /\ Len(hist) < MaxRuns
    /\ \E config \in CleanerConfigs :
          /\ tree' = xyz_tile_cleaner(tree, config).tree
          /\ hist' = Append(hist, Call("clean", config, tree', manifest, archive))
    /\ UNCHANGED <<manifest, archive, args, pc, status, draws>>

CallWatermarker ==
    /\ pc = "stages" /\ Len(hist) < MaxRuns
    /\ \E config \in WatermarkerConfigs :
          \E enc \in UniformEncoders(Marked(tree, config)) :
             LET r == xyz_tile_watermarker(tree, config, enc)
             IN  /\ tree' = r.tree
                 /\ draws' = draws \o r.draws
                 /\ hist' = Append(hist, Call("mark", config, tree', manifest, archive))
    /\ UNCHANGED <<manifest, archive, args, pc, status>>

CallPathsaver ==
    /\ pc = "stages" /\ Len(hist) < MaxRuns
    /\ \E pos \in RootPositions(tree, ManifestName) :
          LET r == xyz_tile_pathsaver(tree, manifest, Root, pos)
          IN  /\ tree' = r.tree
              /\ manifest' = r.manifest
              /\ hist' = Append(hist, Call("plog", [scan_path |-> Root], tree', manifest', archive))
    /\ UNCHANGED <<archive, args, pc, status, draws>>

CallArchiver ==
    /\ pc = "stages" /\ Len(hist) < MaxRuns
    /\ \E config \in ArchiverConfigs :
          \E pos \in RootPositions(tree, config.zip_name) :
             LET r == xyz_tile_archiver(tree, config, pos)
             IN  /\ tree' = r.tree
                 /\ archive' = r.archive
                 /\ hist' = Append(hist, Call("zip", config, tree', manifest, archive'))
    /\ UNCHANGED <<manifest, args, pc, status, draws>>

NextStages == CallCleaner \/ CallWatermarker \/ CallPathsaver \/ CallArchiver

SpecStages == InitStages /\ [][NextStages]_vars

----------------------------------------------------------------------------
(* xyz_tiler.py *)

\* the zoom range of the command line, as the rendering engine reads it
ZoomRanges == {<<0, 0>>, <<14, 16>>}
RenderSizes == {1, 5}
TileName == <<"0", "jpg">>          \* <y>.jpg: xyz_tile_format 1
PreviewName == <<"preview", "html">>

\* the zoom levels of the range that the raster covers
RenderedZooms(config) == {z \in Zooms : config.xyz_zoom_min <= z /\ z <= config.xyz_zoom_max}

\* one tile written to <output>/<z>/0/0.jpg, the directories made on the way
write_tile(t, z, size) ==
    LET made == [t EXCEPT ![ZoomDir(z)].exists = TRUE, ![XDir(z)].exists = TRUE]
    IN  WriteFile(made, XDir(z), TileName, size, Len(made[XDir(z)].files))

RECURSIVE write_tiles(_, _, _)
write_tiles(t, zooms, sizes) ==
    IF zooms = {} THEN t
    ELSE LET z == CHOOSE x \in zooms : \A y \in zooms : x <= y
         IN  write_tiles(write_tile(t, z, sizes[z]), zooms \ {z}, sizes)

\* processing.run("qgis:tilesxyzdirectory", params): the tiles and preview.html
render(t, config, sizes) ==
    LET tiled == write_tiles(t, RenderedZooms(config), sizes)
    IN  WriteFile(tiled, Root, PreviewName, 4, Len(tiled[Root].files))

\* what the environment decides for a call of xyz_tiler: the QGIS installation
\* is not found (get_qgis_ltr raises), the raster is invalid, or tiles are rendered
TilerOutcomes == {"FileNotFoundError", "exit", "rendered"}

xyz_tiler(t, config, outcome, sizes) ==
    IF outcome = "rendered" THEN render(t, config, sizes) ELSE t

----------------------------------------------------------------------------
(* main.py *)

OutputBase == "out"                  \* os.path.basename(args.output)
LogName == <<"Forge_Log", "txt">>

\* logging.basicConfig(filename=log_file) and the five logging.info calls:
\* the log is opened for appending
write_log(t) ==
    LET old == SelectSeq(t[Root].files, LAMBDA f : f.name = LogName)
        size == IF old = << >> THEN 5 ELSE old[1].size + 5
    IN  WriteFile(t, Root, LogName, size, Len(t[Root].files))

tiler_config(a) ==
    [xyz_raster_path |-> a.input, xyz_zoom_min |-> a.minlayer.v, xyz_zoom_max |-> a.maxlayer.v]
cleaner_config(a) ==
    [clear_size_min |-> a.clear, clear_zoom_min |-> 1, clear_zoom_max |-> 25]
\* the levels taken from the zoom range of the generation
watermarker_config_from_range(a) ==
    [watermark_layer_levels |->
         [k \in 1..(a.maxlayer.v - a.minlayer.v + 1) |-> a.minlayer.v + k - 1],
     watermark_font_path |-> "arial.ttf",
     watermark_frequency |-> 6, watermark_stroke_width |-> 1,
     watermark_stroke_fill |-> <<0, 0, 0>>]
watermarker_config(a) ==
    [watermark_layer_levels |-> <<14, 15, 18, 19>>, watermark_font_path |-> "arial.ttf",
     watermark_frequency |-> 6, watermark_stroke_width |-> 1,
     watermark_stroke_fill |-> <<0, 0, 0>>]
pathsaver_config(a) == [scan_path |-> Root]
zipper_config(a) ==
    [archive_path |-> Root, zip_inside |-> TRUE, zip_name |-> <<OutputBase, "zip">>]

\* the order of the calls in main()
StageOrder == <<"gen", "clean", "mark", "plog", "zip", "finish", "done">>
Position(stage) == CHOOSE i \in 1..Len(StageOrder) : StageOrder[i] = stage
MarkBeforeClean == <<"gen", "mark", "clean", "plog", "zip", "finish", "done">>
following_swapped(stage) ==
    MarkBeforeClean[1 + CHOOSE i \in 1..Len(MarkBeforeClean) : MarkBeforeClean[i] = stage]
\* the archive written before the path log
following_zip_first(stage) ==
    (IF stage = "mark" THEN "zip" ELSE IF stage = "zip" THEN "plog"
     ELSE IF stage = "plog" THEN "finish" ELSE StageOrder[Position(stage) + 1])
following(stage) == StageOrder[Position(stage) + 1]

\* the command lines: every combination of the optional flags
ArgSets ==
    {[input |-> i, minlayer |-> PyStr(r[1]), maxlayer |-> PyStr(r[2]), clear |-> c,
      watermark |-> w, pathlog |-> p, zip |-> z] :
        i \in {PyNone, PyStr(0)}, r \in ZoomRanges, c \in {PyNone, PyStr(5)},
        w \in {PyNone, PyStr(2024)}, p \in BOOLEAN, z \in BOOLEAN}

Init ==
    /\ tree \in Trees
    /\ manifest = ManifestOf(tree)
    /\ archive = << >>
    /\ hist = << >>
    /\ args \in ArgSets
    /\ pc = "gen"
    /\ status = ""
    /\ draws = << >>

\* where main() stands after xyz_tiler(tiler_config): the SystemExit of exit()
\* (xyz_tiler.py line 178) and the FileNotFoundError of get_qgis_ltr are not
\* caught in main(), so they end the process
after_tiler_ignoring_exit(outcome) ==
    IF outcome = "FileNotFoundError" THEN "dead" ELSE following("gen")
after_tiler(outcome) ==
    IF outcome = "rendered" THEN following("gen") ELSE "dead"

\* the exit status of the interpreter: exit() without an argument raises
\* SystemExit(None), reported as 0 like falling off the end of the script;
\* an uncaught exception is reported as 1
exit_status(st) ==
    CASE st = "completed" -> 0
      [] st = "exit" -> 0
      [] OTHER -> 1

\* lines 195-198
Generate ==
    /\ pc = "gen"
    /\ IF Truthy(args.input)
       THEN \E outcome \in TilerOutcomes :
               \E sizes \in [RenderedZooms(tiler_config(args)) -> RenderSizes] :
                  /\ tree' = xyz_tiler(tree, tiler_config(args), outcome, sizes)
                  /\ hist' = Append(hist, Call("gen", tiler_config(args), tree', manifest, archive))
                  /\ status' = IF outcome = "rendered" THEN "" ELSE outcome
                  /\ pc' = after_tiler(outcome)
       ELSE /\ pc' = following("gen")
            /\ UNCHANGED <<tree, hist, status>>
    /\ UNCHANGED <<manifest, archive, args, draws>>

\* lines 199-202
Clean ==
    /\ pc = "clean"
    /\ IF Truthy(args.clear)
       THEN LET r == xyz_tile_cleaner(tree, cleaner_config(args))
            IN  /\ tree' = r.tree
                /\ hist' = Append(hist, Call("clean", cleaner_config(args), tree', manifest, archive))
                /\ status' = IF r.raised THEN "TypeError" ELSE ""
                /\ pc' = IF r.raised THEN "dead" ELSE following("clean")
       ELSE /\ pc' = following("clean")
            /\ UNCHANGED <<tree, hist, status>>
    /\ UNCHANGED <<manifest, archive, args, draws>>

\* lines 203-206
Watermark ==
    /\ pc = "mark"
    /\ IF Truthy(args.watermark)
       THEN \E enc \in Encoders(Marked(tree, watermarker_config(args))) :
               LET r == xyz_tile_watermarker(tree, watermarker_config(args), enc)
               IN  /\ tree' = r.tree
                   /\ draws' = draws \o r.draws
                   /\ hist' = Append(hist, Call("mark", watermarker_config(args), tree', manifest, archive))
                   /\ status' = IF r.raised THEN "OSError" ELSE ""
                   /\ pc' = IF r.raised THEN "dead" ELSE following("mark")
       ELSE /\ pc' = following("mark")
            /\ UNCHANGED <<tree, hist, status, draws>>
    /\ UNCHANGED <<manifest, archive, args>>

\* lines 208-211
PathLog ==
    /\ pc = "plog"
    /\ IF args.pathlog
       THEN \E pos \in RootPositions(tree, ManifestName) :
               LET r == xyz_tile_pathsaver(tree, manifest, pathsaver_config(args).scan_path, pos)
               IN  /\ tree' = r.tree
                   /\ manifest' = r.manifest
                   /\ hist' = Append(hist, Call("plog", pathsaver_config(args), tree', manifest', archive))
       ELSE UNCHANGED <<tree, manifest, hist>>
    /\ pc' = following("plog")
    /\ UNCHANGED <<archive, args, status, draws>>

\* lines 213-217
Archive ==
    /\ pc = "zip"
    /\ IF args.zip
       THEN \E pos \in RootPositions(tree, zipper_config(args).zip_name) :
               LET r == xyz_tile_archiver(tree, zipper_config(args), pos)
               IN  /\ tree' = r.tree
                   /\ archive' = r.archive
                   /\ hist' = Append(hist, Call("zip", zipper_config(args), tree', manifest, archive'))
       ELSE UNCHANGED <<tree, archive, hist>>
    /\ pc' = following("zip")
    /\ UNCHANGED <<manifest, args, status, draws>>

\* lines 219-235: the completion message, then the run log
Finish ==
    /\ pc = "finish"
    /\ status' = "completed"
    /\ tree' = write_log(tree)
    /\ pc' = following("finish")
    /\ UNCHANGED <<manifest, archive, hist, args, draws>>

Next == Generate \/ Clean \/ Watermark \/ PathLog \/ Archive \/ Finish

Spec == Init /\ [][Next]_vars

----------------------------------------------------------------------------
(* The calls recorded in hist *)

Last == hist[Len(hist)]
Prev == hist[Len(hist) - 1]
Did(op) == Len(hist) > 0 /\ Last.op = op
DidTwice(op) ==
    Len(hist) > 1 /\ Last.op = op /\ Prev.op = op /\ Last.config = Prev.config

\* d lies under a zoom directory numbered within [lo, hi]
UnderZoom(d, lo, hi) == Len(d) >= 1 /\ \E z \in lo..hi : d[1] = DirName(z)
SweptFiles(t, config) ==
    {x \in AllFiles(t) : UnderZoom(x.dir, config.clear_zoom_min, config.clear_zoom_max)}

----------------------------------------------------------------------------
(* Properties of main() *)

StagesRan == [i \in 1..Len(hist) |-> hist[i].op]

FlagGiven(stage) ==
    CASE stage = "gen" -> Truthy(args.input)
      [] stage = "clean" -> Truthy(args.clear)
      [] stage = "mark" -> Truthy(args.watermark)
      [] stage = "plog" -> args.pathlog
      [] stage = "zip" -> args.zip

\* Generate, Clean, Watermark, Path-log, Archive
ClaimedOrder == <<"gen", "clean", "mark", "plog", "zip">>
Rank(stage) == CHOOSE i \in 1..Len(ClaimedOrder) : ClaimedOrder[i] = stage
EnabledStages == SelectSeq(ClaimedOrder, FlagGiven)
Terminated == pc \in {"done", "dead"}

\* C1: the stages main() calls are enabled ones, in the order Generate, Clean,
\* Watermark, Path-log, Archive; each stage starts in exactly the state the
\* stage before it left; a run that reaches the end has called every enabled stage
C1_StageOrder ==
    /\ \A i, j \in 1..Len(hist) : i < j => Rank(hist[i].op) < Rank(hist[j].op)
    /\ \A i \in 1..Len(hist) : FlagGiven(hist[i].op)
    /\ \A i \in 1..(Len(hist) - 1) : hist[i + 1].pre = hist[i].post
    /\ Len(hist) > 0 /\ pc # "done" => Last.post = Snapshot
    /\ pc = "done" => StagesRan = EnabledStages

C1_Witness ==
    /\ pc = "done"
    /\ StagesRan = ClaimedOrder
    /\ \E i \in 1..(Len(hist) - 1) : hist[i].pre.tree # hist[i].post.tree

\* C2: with any of the optional flags omitted, and unless the generator has
\* aborted the run, every stage whose flag was given runs and the driver
\* reaches its completion message
C2_OmittedFlagsHarmless ==
    (/\ Terminated
     /\ \E stage \in Range(ClaimedOrder) : ~FlagGiven(stage)
     /\ status \notin {"exit", "FileNotFoundError"})
    => (status = "completed" /\ StagesRan = EnabledStages)

\* C4: with -clear T the Clean stage raises no error, the driver goes on, and
\* the files deleted are exactly the swept files of size < T
C4_ClearComparesNumerically ==
    \A i \in 1..Len(hist) :
        hist[i].op = "clean" =>
            /\ status # "TypeError"
            /\ AllFiles(hist[i].post.tree) =
                  AllFiles(hist[i].pre.tree) \
                      {x \in SweptFiles(hist[i].pre.tree, hist[i].config) :
                          x.f.size < hist[i].config.clear_size_min.v}

----------------------------------------------------------------------------
(* Properties of the stage functions *)

\* the same tree with every directory listed in the opposite order
Reversed(t) ==
    [d \in DOMAIN t |->
        [t[d] EXCEPT !.files = [i \in 1..Len(@) |-> @[Len(@) + 1 - i]]]]

\* C3: after xyz_tile_cleaner with an integer threshold T, a file under a swept
\* zoom directory is gone if its size was below T and is still there, unchanged,
\* if its size was at least T; visiting the files in the opposite order leaves
\* the same set of files
C3_CleanerPostcondition ==
    Did("clean") =>
        LET pre == Last.pre.tree
            T == Last.config.clear_size_min.v
        IN  /\ \A x \in SweptFiles(pre, Last.config) :
                  IF x.f.size < T
                  THEN ~HasFile(tree, x.dir, x.f.name)
                  ELSE x \in AllFiles(tree)
            /\ SweptFiles(tree, Last.config) \subseteq SweptFiles(pre, Last.config)
            /\ AllFiles(xyz_tile_cleaner(Reversed(pre), Last.config).tree) = AllFiles(tree)

C3_Witness ==
    /\ Did("clean")
    /\ \E x, y \in SweptFiles(Last.pre.tree, Last.config) :
          /\ x.f.size < Last.config.clear_size_min.v
          /\ y.f.size = Last.config.clear_size_min.v
          /\ ~HasFile(tree, x.dir, x.f.name)
          /\ y \in AllFiles(tree)

\* C5: a second run of xyz_tile_cleaner with the same threshold and zoom range
\* deletes nothing: the tree is what the first run left
C5_CleanerIdempotent == DidTwice("clean") => tree = Last.pre.tree

C5_Witness ==
    /\ DidTwice("clean")
    /\ Prev.pre.tree # Last.pre.tree
    /\ tree = Last.pre.tree

IsImageName(name) == \E e \in {"png", "jpg", "jpeg"} : Lower(name[2]) = e

VisitedByWatermarker(t, config, d) ==
    /\ Exists(t, d)
    /\ Len(d) >= 1
    /\ \E k \in 1..Len(config.watermark_layer_levels) :
          d[1] = DirName(config.watermark_layer_levels[k])

TwelveFiles == TreeA([i \in 1..12 |-> File(ToString(i), "jpg", 1)])
TwelveMarked ==
    LET config == [watermark_layer_levels |-> <<14>>, watermark_frequency |-> 5,
                   watermark_font_path |-> "arial.ttf"]
        out == xyz_tile_watermarker(TwelveFiles, config,
                   [size |-> [p \in PathsOf(TwelveFiles) |-> 1], fonts |-> {"arial.ttf"}]).tree
    IN  {i - 1 : i \in {j \in 1..12 : out[XDir(14)].files[j] # TwelveFiles[XDir(14)].files[j]}}

\* C6: in a directory the watermarker visits, the files it overwrites are
\* exactly those whose 0-based position in the listing is a multiple of the
\* frequency and whose name ends, in any case, in .png, .jpg or .jpeg; every
\* other file is unchanged; frequency 5 over 12 images overwrites 0, 5 and 10
C6_WatermarkSelection ==
    /\ TwelveMarked = {0, 5, 10}
    /\ Did("mark") =>
          LET pre == Last.pre.tree
              F == Last.config.watermark_frequency
          IN  \A d \in DirUniverse :
                 /\ Len(tree[d].files) = Len(pre[d].files)
                 /\ \A i \in 1..Len(pre[d].files) :
                       LET f == pre[d].files[i]
                           g == tree[d].files[i]
                       IN  IF /\ VisitedByWatermarker(pre, Last.config, d)
                              /\ (i - 1) % F = 0
                              /\ IsImageName(f.name)
                           THEN g.name = f.name /\ g.marks = f.marks + 1
                           ELSE g = f

C6_Witness ==
    /\ Did("mark")
    /\ Last.config.watermark_frequency > 1
    /\ \E d \in DirUniverse :
          \E i, j \in 1..Len(tree[d].files) :
             /\ i > 1
             /\ tree[d].files[i].marks = Last.pre.tree[d].files[i].marks + 1
             /\ IsImageName(tree[d].files[j].name)
             /\ tree[d].files[j] = Last.pre.tree[d].files[j]

ImagePaths(t) == {x.dir \o <<x.f.name>> : x \in {y \in AllFiles(t) : IsImageName(y.f.name)}}

\* C7: after xyz_tile_pathsaver the manifest holds exactly one line, the
\* path relative to the root, for every file whose extension is one of the
\* image types of the watermarker (.png, .jpg, .jpeg), and no other line
C7_ManifestListsEveryImage ==
    Did("plog") =>
        /\ Range(manifest) = ImagePaths(tree)
        /\ Len(manifest) = Cardinality(ImagePaths(tree))

\* C8: xyz_tile_pathsaver replaces the manifest: no line of an earlier
\* manifest survives, no line is repeated, the manifest does not list itself,
\* and a second run on the unchanged tree writes the same lines as the first
C8_PathsaverIdempotent ==
    /\ Did("plog") =>
          /\ Range(manifest) \subseteq PathsOf(tree)
          /\ Len(manifest) = Cardinality(Range(manifest))
          /\ <<ManifestName>> \notin Range(manifest)
    /\ DidTwice("plog") => manifest = Last.pre.manifest

C8_Witness ==
    /\ DidTwice("plog")
    /\ Prev.pre.manifest = StaleManifest
    /\ manifest # << >>
    /\ manifest = Last.pre.manifest

Member(x) == [path |-> x.dir \o <<x.f.name>>, size |-> x.f.size, marks |-> x.f.marks]
TopLevelArchive(x) == x.dir = Root /\ x.f.name[2] = "zip"
ArchivableFiles(t) == {Member(x) : x \in {y \in AllFiles(t) : ~TopLevelArchive(y)}}

\* C9: the members of the archive are exactly the files under the source
\* directory other than the root's files named *.zip, each once and under its
\* path relative to the source directory; *.zip files in subdirectories are
\* members; an archive written into the source root is not a member of itself
C9_ArchiveMembers ==
    Did("zip") =>
        /\ Range(archive) = ArchivableFiles(Last.pre.tree)
        /\ Len(archive) = Cardinality(Range(archive))
        /\ Last.config.zip_inside =>
              /\ HasFile(tree, Root, Last.config.zip_name)
              /\ \A m \in Range(archive) : m.path # <<Last.config.zip_name>>

C9_Witness ==
    /\ Did("zip")
    /\ Last.config.zip_inside
    /\ HasFile(Last.pre.tree, Root, <<"old", "zip">>)
    /\ \E m \in Range(archive) : Len(m.path) > 1 /\ m.path[Len(m.path)][2] = "zip"
    /\ \A m \in Range(archive) : Len(m.path) = 1 => m.path[1][2] # "zip"

\* C10: extracting the archive into an empty location gives the source tree
\* minus the root's *.zip files: the same files and the same directories
C10_RoundTrip ==
    Did("zip") =>
        /\ ExtractedFiles(archive) = ArchivableFiles(Last.pre.tree)
        /\ ExtractedDirs(archive) = {d \in DirUniverse \ {Root} : Exists(Last.pre.tree, d)}

----------------------------------------------------------------------------
(* Properties of main(): failures *)

\* the files under the zoom directories
TileFiles(t) == {x \in AllFiles(t) : Len(x.dir) >= 1}

\* C11: when the raster fails to load, the run stops at once: the generator is
\* the only stage called, main() takes no further step, so the completion
\* message is never printed, and the output tree, the manifest and the archive
\* are as they were when the run began: no tile is cleaned up
C11_InvalidRasterAborts ==
    status = "exit" =>
        /\ pc = "dead"
        /\ StagesRan = <<"gen">>
        /\ Snapshot = hist[1].pre
        /\ ~ENABLED Next

C11_Witness ==
    /\ status = "exit"
    /\ \A stage \in Range(ClaimedOrder) : FlagGiven(stage)
    /\ \E x \in TileFiles(tree) : x.f.size < 5
    /\ HasFile(tree, Root, <<"old", "zip">>)

\* C12: a run that stops because the raster failed to load ends with a
\* non-zero exit status, unlike a run that reaches the completion message
C12_InvalidRasterExitsNonZero ==
    /\ status = "exit" => exit_status(status) # 0
    /\ status = "completed" => exit_status(status) = 0

\* C13: a problem inside Clean, Watermark, Path-log or Archive keeps no later
\* stage from running: once main() has called one of these stages, it ends
\* with the completion message, having called every enabled stage after it
C13_StageProblemsNotFatal ==
    \A i \in 1..Len(hist) :
        (hist[i].op # "gen" /\ Terminated) =>
            /\ status = "completed"
            /\ \A stage \in Range(EnabledStages) :
                  Rank(stage) > Rank(hist[i].op) => stage \in Range(StagesRan)

----------------------------------------------------------------------------
(* Properties of the stage functions: missing levels, repeated runs, frame *)

\* a watermarker run's result with the sizes left out of account
MarkProbe(t, config) ==
    xyz_tile_watermarker(t, config,
        [size |-> [p \in PathsOf(t) |-> 0], fonts |-> {config.watermark_font_path}])

\* C14: the cleaner and the watermarker skip a requested zoom level whose
\* directory does not exist, raising nothing and creating nothing, and process
\* in full every requested level that exists, before or after the missing
\* one: the cleaner leaves no file below the threshold there, the watermarker
\* overlays every selected file there
C14_MissingLevelsSkipped ==
    \A n \in 1..Len(hist) :
        LET pre == hist[n].pre.tree
            post == hist[n].post.tree
            config == hist[n].config
        IN  /\ hist[n].op = "clean" =>
                  /\ ~xyz_tile_cleaner(pre, config).raised
                  /\ \A z \in config.clear_zoom_min..config.clear_zoom_max :
                        IF Exists(pre, ZoomDir(z))
                        THEN \A x \in AllFiles(post) :
                                UnderZoom(x.dir, z, z) => x.f.size >= config.clear_size_min.v
                        ELSE \A d \in DirUniverse : UnderZoom(d, z, z) => ~Exists(post, d)
            /\ hist[n].op = "mark" =>
                  /\ ~MarkProbe(pre, config).raised
                  /\ \A k \in 1..Len(config.watermark_layer_levels) :
                        LET z == config.watermark_layer_levels[k]
                        IN  IF Exists(pre, ZoomDir(z))
                            THEN \A d \in DirUniverse :
                                    UnderZoom(d, z, z) =>
                                       \A i \in 1..Len(pre[d].files) :
                                          Selected(pre[d].files[i].name, i - 1,
                                                   config.watermark_frequency)
                                          => post[d].files[i].marks = pre[d].files[i].marks + 1
                            ELSE \A d \in DirUniverse : UnderZoom(d, z, z) => ~Exists(post, d)

\* zoom 14 is missing and 16 exists: the cleaner (1..25) deletes under 16, then
\* the watermarker (15, 16, 14) overlays under 16
C14_Witness ==
    /\ Len(hist) = 2
    /\ hist[1].op = "clean" /\ hist[2].op = "mark"
    /\ ~Exists(hist[1].pre.tree, ZoomDir(14)) /\ Exists(hist[1].pre.tree, ZoomDir(16))
    /\ hist[1].config.clear_zoom_min < 14 /\ hist[1].config.clear_zoom_max > 16
    /\ \E x \in AllFiles(hist[1].pre.tree) : x.dir = XDir(16) /\ x \notin AllFiles(hist[1].post.tree)
    /\ hist[2].config.watermark_layer_levels = <<15, 16, 14>>
    /\ \E i \in 1..Len(tree[XDir(16)].files) : tree[XDir(16)].files[i].marks = 1

----------------------------------------------------------------------------
(* Properties of main(): the watermark stage *)

\* the overlay count of every file
MarksOf(t) == {<<x.dir \o <<x.f.name>>, x.f.marks>> : x \in AllFiles(t)}

\* C15: when the requested font cannot be loaded the watermarker draws with
\* the default font instead: it raises nothing, every text is drawn with the
\* requested font or the default one, the files overlaid are those a run with
\* a loadable font overlays, and main() goes on to its completion message
C15_FontFallback ==
    \A n \in 1..Len(hist) :
        hist[n].op = "mark" =>
            /\ status # "OSError" /\ pc # "dead"
            /\ pc = "done" => status = "completed"
            /\ MarksOf(hist[n].post.tree) = MarksOf(MarkProbe(hist[n].pre.tree, hist[n].config).tree)
            /\ \A k \in 1..Len(draws) :
                  draws[k].font \in {hist[n].config.watermark_font_path, DefaultFont}

C15_Witness ==
    /\ pc = "done" /\ status = "completed"
    /\ Len(draws) > 0
    /\ \A k \in 1..Len(draws) : draws[k].font = DefaultFont
    /\ \E x \in AllFiles(tree) : x.f.marks = 1
    /\ args.pathlog /\ args.zip

\* C16: every watermark is drawn with the configured stroke: the text-draw
\* call receives watermark_stroke_width and watermark_stroke_fill
C16_StrokeReachesDrawCall ==
    \A k \in 1..Len(draws) :
        /\ draws[k].stroke_width = watermarker_config(args).watermark_stroke_width
        /\ draws[k].stroke_fill = watermarker_config(args).watermark_stroke_fill

----------------------------------------------------------------------------
(* Properties of the stage functions: repeated watermarking, the cleaner's frame *)

\* C17: the watermarker run twice in a row with the same configuration selects
\* the same files both times, namely the image files at the multiples of the
\* frequency in the directories it visits; each of them ends with two
\* overlays more than before the first run and every other file with as many
\* as before, at the same place in the same listing
C17_WatermarkTwice ==
    DidTwice("mark") =>
        LET before == Prev.pre.tree
            mid == Prev.post.tree
            config == Last.config
        IN  /\ mid = Last.pre.tree
            /\ \A d \in DirUniverse :
                  /\ Len(tree[d].files) = Len(before[d].files)
                  /\ \A i \in 1..Len(before[d].files) :
                        LET f == before[d].files[i]
                            g == mid[d].files[i]
                            h == tree[d].files[i]
                            first == g.marks = f.marks + 1
                            second == h.marks = g.marks + 1
                        IN  /\ f.name = g.name /\ g.name = h.name
                            /\ first = second
                            /\ first = (/\ VisitedByWatermarker(before, config, d)
                                        /\ Selected(f.name, i - 1, config.watermark_frequency))
                            /\ h.marks = f.marks + (IF first THEN 2 ELSE 0)
                            /\ ~first => h = f

\* a first and a second run over files never overlaid: a selected file with
\* count 2 next to an image file with count 0
C17_Witness ==
    /\ DidTwice("mark") /\ Len(hist) = 2
    /\ \E d \in DirUniverse :
          \E i, j \in 1..Len(tree[d].files) :
             /\ tree[d].files[i].marks = 2
             /\ tree[d].files[j].marks = 0 /\ IsImageName(tree[d].files[j].name)

\* C18: the cleaner creates no file and changes none, creates and removes no
\* directory (one it emptied stays, empty), and leaves every directory outside
\* the zoom directories clear_zoom_min..clear_zoom_max exactly as it was,
\* whatever the sizes of its files; the manifest and the archive stay too
C18_CleanerFrame ==
    \A n \in 1..Len(hist) :
        hist[n].op = "clean" =>
            LET pre == hist[n].pre.tree
                post == hist[n].post.tree
                config == hist[n].config
            IN  /\ AllFiles(post) \subseteq AllFiles(pre)
                /\ \A d \in DirUniverse :
                      /\ Exists(post, d) = Exists(pre, d)
                      /\ ~UnderZoom(d, config.clear_zoom_min, config.clear_zoom_max)
                         => post[d] = pre[d]
                /\ hist[n].post.manifest = hist[n].pre.manifest
                /\ hist[n].post.archive = hist[n].pre.archive

\* threshold 5 over levels 1..25: 16/0 is emptied and stays, while the files
\* of size 1 in the root and under zoom 0 stay
C18_Witness ==
    /\ Did("clean")
    /\ Last.config.clear_size_min = PyInt(5) /\ Last.config.clear_zoom_min = 1
    /\ Last.pre.tree[XDir(16)].files # << >>
    /\ Exists(tree, XDir(16)) /\ tree[XDir(16)].files = << >>
    /\ \E x \in AllFiles(tree) : x.dir = Root /\ x.f.size = 1
    /\ \E x \in AllFiles(tree) : x.dir = XDir(0) /\ x.f.size = 1

----------------------------------------------------------------------------
(* Properties of main(): what the stages after the generator leave *)

TilePaths(t) == {x.dir \o <<x.f.name>> : x \in TileFiles(t)}
ListedNames(t) == [d \in DirUniverse |-> [i \in 1..Len(t[d].files) |-> t[d].files[i].name]]

\* C19: no stage after the generator adds a file under the zoom directories:
\* the cleaner only removes files, the watermarker keeps every path where it
\* is, the path log and the archiver leave every tile as it is; the only paths
\* created after the generator are tile_paths.txt, the archive and, at the end,
\* Forge_Log.txt; and no configuration but the generator's holds the raster path
C19_TilesNeverGrow ==
    /\ \A n \in 1..Len(hist) :
          LET pre == hist[n].pre.tree
              post == hist[n].post.tree
          IN  /\ hist[n].op = "gen" <=> "xyz_raster_path" \in DOMAIN hist[n].config
              /\ hist[n].op # "gen" =>
                    /\ TilePaths(post) \subseteq TilePaths(pre)
                    /\ PathsOf(post) \ PathsOf(pre)
                          \subseteq {<<ManifestName>>, <<zipper_config(args).zip_name>>}
              /\ hist[n].op = "clean" => AllFiles(post) \subseteq AllFiles(pre)
              /\ hist[n].op = "mark" => ListedNames(post) = ListedNames(pre)
              /\ hist[n].op \in {"plog", "zip"} => TileFiles(post) = TileFiles(pre)
    /\ (pc = "done" /\ Len(hist) > 0) =>
          /\ TileFiles(tree) = TileFiles(Last.post.tree)
          /\ PathsOf(tree) \ PathsOf(Last.post.tree) \subseteq {<<LogName>>}

\* a run that rendered tiles, overlaid one, then wrote the manifest, the
\* archive and the log, all three new
C19_Witness ==
    /\ pc = "done"
    /\ StagesRan = <<"gen", "mark", "plog", "zip">>
    /\ hist[2].post.tree # hist[2].pre.tree
    /\ \A n \in 3..4 : PathsOf(hist[n].post.tree) # PathsOf(hist[n].pre.tree)
    /\ <<LogName>> \notin PathsOf(hist[4].post.tree)

NotLog(m) == m.path # <<LogName>>

\* C20 as stated: at the end of a completed run with -zip the archive has a
\* member for every file of the output tree other than the root's archives,
\* Forge_Log.txt included
C20_ArchiveHoldsFinalTree ==
    (pc = "done" /\ args.zip) =>
        {m.path : m \in Range(archive)} = {m.path : m \in ArchivableFiles(tree)}

\* C20, amended: at the end of a completed run with -zip the archive holds
\* every file of the output tree other than the root's archives and
\* Forge_Log.txt, tile_paths.txt included when -plog was given, each as it is
\* in the tree; the log this run wrote is not in it: a member Forge_Log.txt is
\* the log an earlier run left, as it was before this run appended to it
C20_ArchiveHoldsTreeBeforeLog ==
    (pc = "done" /\ args.zip) =>
        /\ {m \in Range(archive) : NotLog(m)} = {m \in ArchivableFiles(tree) : NotLog(m)}
        /\ args.pathlog => \E m \in Range(archive) : m.path = <<ManifestName>>
        /\ HasFile(tree, Root, LogName)
        /\ \A m \in Range(archive) :
              ~NotLog(m) => (m \in ArchivableFiles(Last.pre.tree) /\ m \notin ArchivableFiles(tree))

C20_Witness ==
    /\ pc = "done" /\ args.zip /\ args.pathlog
    /\ Did("zip") /\ hist[1].op = "gen"
    /\ \E m \in Range(archive) : m.path = <<PreviewName>>
    /\ \E m \in Range(archive) : m.path = <<ManifestName>>
    /\ \E m \in Range(archive) : Len(m.path) = 3 /\ m.marks = 1
    /\ \A m \in Range(archive) : NotLog(m)

----------------------------------------------------------------------------
(* Properties of main(): the manifest and the archive together *)

ArchivePaths == {m.path : m \in Range(archive)}

\* the paths the cleaner removed in this run
DeletedByCleaner ==
    UNION {PathsOf(hist[n].pre.tree) \ PathsOf(hist[n].post.tree) :
              n \in {k \in 1..Len(hist) : hist[k].op = "clean"}}

\* C21: a run with -plog and -zip that the generator did not stop ends with
\* tile_paths.txt in the archive, every line of the manifest naming a file of
\* the output tree that is also a member of the archive, and no file the
\* cleaner deleted listed in the manifest or stored in the archive
C21_ManifestAndArchiveAgree ==
    (/\ Terminated
     /\ args.pathlog /\ args.zip
     /\ status \notin {"exit", "FileNotFoundError"})
    => /\ <<ManifestName>> \in ArchivePaths
       /\ Range(manifest) \subseteq PathsOf(tree)
       /\ Range(manifest) \subseteq ArchivePaths
       /\ DeletedByCleaner \cap (Range(manifest) \cup ArchivePaths) = {}

\* d lies under a zoom directory of the list
UnderLevels(d, levels) == \E k \in 1..Len(levels) : UnderZoom(d, levels[k], levels[k])

\* C22: whatever -min/-max are, main() has the cleaner sweep the zoom levels
\* 1..25 and the watermarker the levels 14, 15, 18, 19: no call of the cleaner
\* changes a directory outside 1..25, so the files under zoom 0 stay; no call
\* of the watermarker changes a file outside 14, 15, 18, 19; and in every
\* state of a run the files overlaid lie under these four levels
C22_SweptLevelsFixed ==
    /\ \A n \in 1..Len(hist) :
          LET pre == hist[n].pre.tree
              post == hist[n].post.tree
              config == hist[n].config
          IN  /\ hist[n].op = "clean" =>
                    /\ config.clear_zoom_min = 1 /\ config.clear_zoom_max = 25
                    /\ \A d \in DirUniverse : ~UnderZoom(d, 1, 25) => post[d] = pre[d]
                    /\ post[XDir(0)] = pre[XDir(0)]
              /\ hist[n].op = "mark" =>
                    /\ config.watermark_layer_levels = <<14, 15, 18, 19>>
                    /\ \A d \in DirUniverse :
                          ~UnderLevels(d, <<14, 15, 18, 19>>) => post[d] = pre[d]
              /\ hist[n].op # "gen" => \A x \in AllFiles(hist[n].pre.tree) :
                                          x.dir = XDir(0) => x \in AllFiles(tree)
    /\ \A x \in AllFiles(tree) :
          x.f.marks > 0 => UnderLevels(x.dir, <<14, 15, 18, 19>>)

\* -min 14 -max 16 with -clear absent: the tile of zoom 14 is overlaid, the
\* tile of zoom 16 is not, though both are first in their directories
C22_Witness ==
    /\ pc = "done"
    /\ args.minlayer = PyStr(14) /\ args.maxlayer = PyStr(16)
    /\ StagesRan = <<"gen", "mark">>
    /\ tree[XDir(14)].files = <<[name |-> TileName, size |-> tree[XDir(14)].files[1].size, marks |-> 1]>>
    /\ Len(tree[XDir(16)].files) = 1
    /\ tree[XDir(16)].files[1].name = TileName /\ tree[XDir(16)].files[1].marks = 0

============================================================================
